---- MODULE Spec2Model ----
(***************************************************************************)
(* Model of photobot (src/src/main.py): a Telegram bot with four handlers  *)
(* (/start, /bad_command, photo, video), an access guard (check_user), a   *)
(* media downloader (download_file) and an error reporter (error_handler). *)
(* Text is modelled as a sequence of tokens: every character that matters  *)
(* to a conversion ('/', '&', '<', '>', '"', the apostrophe, the           *)
(* backslash, digits) is a token of its own; runs of other characters are  *)
(* one token.                                                              *)
(***************************************************************************)
EXTENDS Integers, Sequences, FiniteSets, TLC

VARIABLES
    pc,            \* position of the update being processed
    update,        \* the InboundEvent being processed
    file_id,       \* local of image / video, argument of download_file
    new_file,      \* download_file: file_path of the File get_file returned
    raised,        \* the exception raised inside the handler
    context_error, \* context.error as handed to error_handler
    replies,       \* reply_html messages delivered in this run
    getFileCalls,  \* bot.get_file calls made in this run
    writeCalls,    \* download_to_drive calls made in this run
    files,         \* the local filesystem: path -> content
    replaced,      \* content of the file this run's write replaced, or "none"
    reporterRuns,  \* error_handler invocations in this run
    sendAttempts,  \* bot.send_message calls error_handler made in this run
    reports,       \* error reports delivered in this run
    nUpdates       \* updates received so far

vars == <<pc, update, file_id, new_file, raised, context_error, replies,
          getFileCalls, writeCalls, files, replaced, reporterRuns,
          sendAttempts, reports, nUpdates>>

----------------------------------------------------------------------------
(* Bounds of the model *)

MaxUpdates == 2
MaxVariants == 3
MaxPathLen == 3

(* os.getenv("DEVELOPER_CHAT_ID"): a decimal string *)
DEVELOPER_CHAT_ID == <<"4", "2">>

Digits == <<"0", "1", "2", "3", "4", "5", "6", "7", "8", "9">>

RECURSIVE DigitValue(_, _)
DigitValue(d, i) == IF Digits[i] = d THEN i - 1 ELSE DigitValue(d, i + 1)

(* int(s) for a decimal string *)
RECURSIVE int(_)
int(s) ==
    IF Len(s) = 0 THEN 0
    ELSE 10 * int(SubSeq(s, 1, Len(s) - 1)) + DigitValue(s[Len(s)], 1)

(* f"{n}" for a non-negative integer *)
RECURSIVE str_int(_)
str_int(n) ==
    IF n < 10 THEN <<Digits[n + 1]>>
    ELSE str_int(n \div 10) \o <<Digits[(n % 10) + 1]>>

(* str.replace(old, new) for a one-character old *)
RECURSIVE replace(_, _, _)
replace(s, old, new) ==
    IF s = <<>> THEN <<>>
    ELSE (IF Head(s) = old THEN new ELSE <<Head(s)>>) \o replace(Tail(s), old, new)

(* str.split(sep): the list of segments, one more than the separators *)
RECURSIVE split_from(_, _, _, _)
split_from(s, sep, cur, acc) ==
    IF s = <<>> THEN Append(acc, cur)
    ELSE IF Head(s) = sep THEN split_from(Tail(s), sep, <<>>, Append(acc, cur))
    ELSE split_from(Tail(s), sep, Append(cur, Head(s)), acc)

split(s, sep) == split_from(s, sep, <<>>, <<>>)

----------------------------------------------------------------------------
(* Inputs *)

(* a chat that is not the developer's *)
OtherChatId == int(DEVELOPER_CHAT_ID) + 1
ChatIds == {int(DEVELOPER_CHAT_ID), OtherChatId}

FileIds == {"f1", "f2", "f3"}

(* message.photo: PhotoSize variants, each with its own file_id *)
PhotoSeqs ==
    UNION { { p \in [1..n -> FileIds] : \A i, j \in 1..n : p[i] = p[j] => i = j }
            : n \in 1..MaxVariants }

(* message.text of a command: the command and its arguments *)
Texts(cmd) == { <<"/", cmd>>, <<"/", cmd, " ", "<", "b", ">", "\"">> }

PathChars == {"a", "/"}
Paths == UNION { [1..n -> PathChars] : n \in 1..MaxPathLen }

Commands == {"start", "bad_command"}

Updates ==
    UNION { [kind : {c}, chat : ChatIds, text : Texts(c), photo : {<<>>},
             video : {"none"}] : c \in Commands }
    \cup
    [kind : {"photo"}, chat : ChatIds, text : {<<>>}, photo : PhotoSeqs,
     video : {"none"}]
    \cup
    [kind : {"video"}, chat : ChatIds, text : {<<>>}, photo : {<<>>},
     video : FileIds]

NoUpdate == [kind |-> "none", chat |-> 0, text |-> <<>>, photo |-> <<>>,
             video |-> "none"]

(* Exceptions: class, message, and the position in main.py the traceback  *)
(* ends at (set when the exception is raised)                              *)
NoError == [kind |-> "none", cls |-> "", msg |-> <<>>, at |-> ""]

(* error.Forbidden("Unauthorized user") *)
Forbidden == [kind |-> "Unauthorized", cls |-> "telegram.error.Forbidden",
              msg |-> <<"Unauthorized user">>, at |-> ""]

(* what context.bot.wrong_method_name raises *)
AttributeError ==
    [kind |-> "IntentionalFault", cls |-> "AttributeError",
     msg |-> <<"'", "ExtBot", "'", " object has no attribute ",
               "'", "wrong_method_name", "'">>, at |-> ""]

ErrMsgs == { <<"<", "script", ">">>, <<"&", "lt", ";">> }

TransportFailures ==
    [kind : {"TransportFailure"}, cls : {"telegram.error.NetworkError"},
     msg : ErrMsgs, at : {""}]

EmptyFs == [p \in {} |-> "none"]

----------------------------------------------------------------------------
Init ==
    /\ pc = "idle"
    /\ update = NoUpdate
    /\ file_id = "none"
    /\ new_file = <<>>
    /\ raised = NoError
    /\ context_error = NoError
    /\ replies = <<>>
    /\ getFileCalls = <<>>
    /\ writeCalls = <<>>
    /\ files = EmptyFs
    /\ replaced = "none"
    /\ reporterRuns = 0
    /\ sendAttempts = 0
    /\ reports = <<>>
    /\ nUpdates = 0

(* an exception raised at the current position leaves the handler *)
Raise(e) ==
    /\ raised' = [e EXCEPT !.at = pc]
    /\ pc' = "failed"

(* Application.process_update: the update goes to the handler whose filter  *)
(* matches it; updates are processed one at a time.                        *)
process_update ==
    /\ pc \in {"idle", "done"}
    /\ nUpdates < MaxUpdates
    /\ \E u \in Updates :
        /\ update' = u
        /\ pc' = (CASE u.kind = "start" -> "start"
                    [] u.kind = "bad_command" -> "bad_command"
                    [] u.kind = "photo" -> "image"
                    [] u.kind = "video" -> "video")
    /\ nUpdates' = nUpdates + 1
    /\ file_id' = "none"
    /\ new_file' = <<>>
    /\ raised' = NoError
    /\ context_error' = NoError
    /\ replies' = <<>>
    /\ getFileCalls' = <<>>
    /\ writeCalls' = <<>>
    /\ replaced' = "none"
    /\ reporterRuns' = 0
    /\ sendAttempts' = 0
    /\ reports' = <<>>
    /\ UNCHANGED files

(* check_user with the comparison left out: nobody is rejected *)
check_user_open(u) == TRUE

(* check_user: TRUE when it returns, FALSE when it raises Forbidden *)
check_user(u) == u.chat = int(DEVELOPER_CHAT_ID)


(* The text start and video send: usage plus the caller's chat id *)
usage_text(u) ==
    <<"Use /bad_command to cause an error.\n", "Your chat id is ", "<code>">>
    \o str_int(u.chat) \o <<"</code>", ".">>

(* update.effective_message.reply_html(text), awaited at position `at`:    *)
(* the message is delivered to the update's chat, or the call raises.      *)
reply_html(at, text, next) ==
    /\ pc = at
    /\ \/ /\ replies' = Append(replies, [chat |-> update.chat, text |-> text])
          /\ pc' = next
          /\ UNCHANGED raised
       \/ /\ \E e \in TransportFailures : Raise(e)
          /\ UNCHANGED replies
    /\ UNCHANGED <<update, file_id, new_file, context_error, getFileCalls,
                   writeCalls, files, replaced, reporterRuns, sendAttempts,
                   reports, nUpdates>>

(* bad_command: context.bot.wrong_method_name() raises AttributeError *)
bad_command ==
    /\ pc = "bad_command"
    /\ Raise(AttributeError)
    /\ UNCHANGED <<update, file_id, new_file, context_error, replies,
                   getFileCalls, writeCalls, files, replaced, reporterRuns,
                   sendAttempts, reports, nUpdates>>

(* start: check_user, then the reply *)
start ==
    /\ pc = "start"
    /\ IF check_user(update)
       THEN pc' = "start_reply" /\ UNCHANGED raised
       ELSE Raise(Forbidden)
    /\ UNCHANGED <<update, file_id, new_file, context_error, replies,
                   getFileCalls, writeCalls, files, replaced, reporterRuns,
                   sendAttempts, reports, nUpdates>>

start_reply == reply_html("start_reply", usage_text(update), "done")

(* photo[0] in place of photo[-1] *)
image_file_id_first(u) == u.photo[1]

(* update.message.photo[-1].file_id *)
image_file_id(u) == u.photo[Len(u.photo)]

(* image: check_user, file_id of the last photo variant, download_file *)
image ==
    /\ pc = "image"
    /\ IF check_user(update)
       THEN /\ file_id' = image_file_id(update)
            /\ pc' = "get_file"
            /\ UNCHANGED raised
       ELSE Raise(Forbidden) /\ UNCHANGED file_id
    /\ UNCHANGED <<update, new_file, context_error, replies, getFileCalls,
                   writeCalls, files, replaced, reporterRuns, sendAttempts,
                   reports, nUpdates>>

image_reply == reply_html("image_reply", <<"Downloaded image">>, "done")

(* video: check_user, file_id of the video, download_file *)
video ==
    /\ pc = "video"
    /\ IF check_user(update)
       THEN /\ file_id' = update.video
            /\ pc' = "get_file"
            /\ UNCHANGED raised
       ELSE Raise(Forbidden) /\ UNCHANGED file_id
    /\ UNCHANGED <<update, new_file, context_error, replies, getFileCalls,
                   writeCalls, files, replaced, reporterRuns, sendAttempts,
                   reports, nUpdates>>

(* video sending the confirmation where the usage text belongs *)
video_reply_confirmation_first ==
    reply_html("video_reply_usage", <<"Downloaded video">>, "video_reply_done")

video_reply_usage == reply_html("video_reply_usage", usage_text(update), "video_reply_done")

video_reply_done == reply_html("video_reply_done", <<"Downloaded video">>, "done")

(* download_file, first await: bot.get_file(file_id) resolves the file_id  *)
(* to a File with a remote file_path, or raises.                           *)
get_file ==
    /\ pc = "get_file"
    /\ getFileCalls' = Append(getFileCalls, file_id)
    /\ \/ /\ \E p \in Paths : new_file' = p
          /\ pc' = "download_to_drive"
          /\ UNCHANGED raised
       \/ /\ \E e \in TransportFailures : Raise(e)
          /\ UNCHANGED new_file
    /\ UNCHANGED <<update, file_id, context_error, replies, writeCalls, files,
                   replaced, reporterRuns, sendAttempts, reports, nUpdates>>

(* split("/")[0] in place of split("/")[-1] *)
filename_first(file_path) == split(file_path, "/")[1]

(* new_file.file_path.split("/")[-1] *)
filename(file_path) == split(file_path, "/")[Len(split(file_path, "/"))]

(* f"/files/{filename}" *)
local_path(file_path) == <<"/files/">> \o filename(file_path)

(* the filesystem after content is written to path: the file is created or *)
(* replaced, every other file is kept                                      *)
write(fs, path, content) ==
    [p \in DOMAIN fs \cup {path} |-> IF p = path THEN content ELSE fs[p]]

(* where the handler resumes after download_file returns *)
after_download(u) == IF u.kind = "photo" THEN "image_reply" ELSE "video_reply_usage"

(* download_to_drive in a retry loop: a write that fails is attempted again *)
download_to_drive_retry ==
    /\ pc = "download_to_drive"
    /\ writeCalls' = Append(writeCalls, <<"/files/">> \o filename(new_file))
    /\ \/ /\ filename(new_file) # <<>>
          /\ files' = [p \in DOMAIN files \cup {<<"/files/">> \o filename(new_file)} |->
                         IF p = <<"/files/">> \o filename(new_file) THEN file_id
                         ELSE files[p]]
          /\ replaced' = (IF <<"/files/">> \o filename(new_file) \in DOMAIN files
                           THEN files[<<"/files/">> \o filename(new_file)] ELSE "none")
          /\ pc' = (IF update.kind = "photo" THEN "image_reply" ELSE "video_reply_usage")
       \/ /\ Len(writeCalls) < 2
          /\ UNCHANGED <<pc, files, replaced>>
    /\ UNCHANGED <<update, file_id, new_file, raised, context_error, replies,
                   getFileCalls, reporterRuns, sendAttempts, reports, nUpdates>>

(* download_file, second await: new_file.download_to_drive(path) writes    *)
(* the file's bytes to path, or raises. An empty filename names the        *)
(* directory /files/ itself, which cannot be opened for writing. A write   *)
(* that fails may leave nothing or a truncated file behind.                *)
download_to_drive ==
    /\ pc = "download_to_drive"
    /\ writeCalls' = Append(writeCalls, local_path(new_file))
    /\ \/ /\ filename(new_file) # <<>>
          /\ files' = write(files, local_path(new_file), file_id)
          /\ replaced' = (IF local_path(new_file) \in DOMAIN files
                           THEN files[local_path(new_file)] ELSE "none")
          /\ pc' = after_download(update)
          /\ UNCHANGED raised
       \/ /\ \E e \in TransportFailures : Raise(e)
          /\ \/ UNCHANGED files
             \/ /\ filename(new_file) # <<>>
                /\ files' = write(files, local_path(new_file), "partial")
          /\ UNCHANGED replaced
    /\ UNCHANGED <<update, file_id, new_file, context_error, replies,
                   getFileCalls, reporterRuns, sendAttempts, reports, nUpdates>>


----------------------------------------------------------------------------
(* Error reporter *)

(* html.escape with '&' replaced last: the entities it wrote are escaped   *)
(* again                                                                   *)
html_escape_amp_last(s) ==
    replace(replace(replace(replace(replace(s,
        "<", <<"&", "lt", ";">>),
        ">", <<"&", "gt", ";">>),
        "\"", <<"&", "quot", ";">>),
        "'", <<"&", "#x27", ";">>),
        "&", <<"&", "amp", ";">>)

(* html.escape(s): '&' first, then '<', '>', '"' and the apostrophe *)
html_escape(s) ==
    replace(replace(replace(replace(replace(s,
        "&", <<"&", "amp", ";">>),
        "<", <<"&", "lt", ";">>),
        ">", <<"&", "gt", ";">>),
        "\"", <<"&", "quot", ";">>),
        "'", <<"&", "#x27", ";">>)

(* a JSON string literal: backslash and double quote are escaped *)
json_string(s) ==
    <<"\"">> \o replace(replace(s, "\\", <<"\\", "\\">>), "\"", <<"\\", "\"">>)
    \o <<"\"">>

(* json.dumps(update.to_dict(), indent=2, ensure_ascii=False) *)
json_dumps(u) ==
    <<"{\n  ">> \o json_string(<<"chat">>) \o <<": ">> \o str_int(u.chat)
    \o <<",\n  ">> \o json_string(<<"kind">>) \o <<": ">> \o json_string(<<u.kind>>)
    \o <<",\n  ">> \o json_string(<<"text">>) \o <<": ">> \o json_string(u.text)
    \o <<"\n}">>

(* str(context.chat_data), str(context.user_data): no handler stores       *)
(* anything in them, so both are the empty dict                            *)
chat_data_str == <<"{", "}">>
user_data_str == <<"{", "}">>

(* "".join(traceback.format_exception(None, e, e.__traceback__)) *)
tb_string(e) ==
    <<"Traceback (most recent call last):\n", "  File ", "\"", "main.py", "\"",
      ", in ", e.at, "\n", e.cls, ": ">> \o e.msg \o <<"\n">>

(* the message error_handler builds *)
message(u, e) ==
    <<"An exception was raised while handling an update\n">>
    \o <<"<pre>", "update = ">> \o html_escape(json_dumps(u)) \o <<"</pre>", "\n\n">>
    \o <<"<pre>", "context.chat_data = ">> \o html_escape(chat_data_str)
    \o <<"</pre>", "\n\n">>
    \o <<"<pre>", "context.user_data = ">> \o html_escape(user_data_str)
    \o <<"</pre>", "\n\n">>
    \o <<"<pre>">> \o html_escape(tb_string(e)) \o <<"</pre>">>

(* the report sent to the chat the failing update came from *)
report_chat_id_origin == str_int(update.chat)

(* the chat_id error_handler sends to *)
report_chat_id == DEVELOPER_CHAT_ID

(* Application.process_error: an exception leaving a handler is handed to  *)
(* the registered error handler as context.error                           *)
process_error ==
    /\ pc = "failed"
    /\ context_error' = raised
    /\ reporterRuns' = reporterRuns + 1
    /\ pc' = "error_handler"
    /\ UNCHANGED <<update, file_id, new_file, raised, replies, getFileCalls,
                   writeCalls, files, replaced, sendAttempts, reports, nUpdates>>

(* error_handler whose own failure is handed to the error handler again *)
error_handler_rereport ==
    /\ pc = "error_handler"
    /\ sendAttempts' = sendAttempts + 1
    /\ pc' = "failed"
    /\ UNCHANGED <<update, file_id, new_file, raised, context_error, replies,
                   getFileCalls, writeCalls, files, replaced, reporterRuns,
                   reports, nUpdates>>

(* error_handler: build the message and send it once; an exception of      *)
(* send_message leaves error_handler and is only logged by the framework   *)
error_handler ==
    /\ pc = "error_handler"
    /\ sendAttempts' = sendAttempts + 1
    /\ \/ reports' = Append(reports, [chat_id |-> report_chat_id,
                                      text |-> message(update, context_error),
                                      parse_mode |-> "HTML"])
       \/ UNCHANGED reports
    /\ pc' = "done"
    /\ UNCHANGED <<update, file_id, new_file, raised, context_error, replies,
                   getFileCalls, writeCalls, files, replaced, reporterRuns,
                   nUpdates>>

Next ==
    \/ process_update
    \/ bad_command
    \/ start
    \/ start_reply
    \/ image
    \/ image_reply
    \/ video
    \/ video_reply_usage
    \/ video_reply_done
    \/ get_file
    \/ download_to_drive
    \/ process_error
    \/ error_handler

Spec == Init /\ [][Next]_vars

----------------------------------------------------------------------------
(* Properties *)

AuthorizedIdentity == int(DEVELOPER_CHAT_ID)

Authorized == update.chat = AuthorizedIdentity

Handling == update.kind # "none"

Ended == pc \in {"failed", "error_handler", "done"}

Contains(s, sub) ==
    \E i \in 1..(Len(s) - Len(sub) + 1) : SubSeq(s, i, i + Len(sub) - 1) = sub

UsageReply == [chat |-> update.chat, text |-> usage_text(update)]

(* C1: for every origin chat other than the AuthorizedIdentity, every      *)
(* handler raises Unauthorized before any network or filesystem action: no *)
(* get_file call, no file write, no reply in that invocation.              *)
C1_UnauthorizedRaisesBeforeAnyAction ==
    (Handling /\ ~Authorized) =>
        /\ getFileCalls = <<>>
        /\ writeCalls = <<>>
        /\ replies = <<>>
        /\ pc \in {"start", "bad_command", "image", "video", "failed",
                   "error_handler", "done"}
        /\ Ended => raised.kind = "Unauthorized"

(* C2: in /bad_command the guard runs first: the failure reaching the      *)
(* Error Reporter is Unauthorized for a caller other than the              *)
(* AuthorizedIdentity, and IntentionalFault only for the                   *)
(* AuthorizedIdentity.                                                     *)
C2_BadCommandGuardFirst ==
    (update.kind = "bad_command" /\ context_error # NoError) =>
        context_error.kind = (IF Authorized THEN "IntentionalFault"
                              ELSE "Unauthorized")

(* C3: every failure raised inside a handler makes the Error Reporter run  *)
(* exactly once for it, with that failure, and the report is addressed to  *)
(* the AuthorizedIdentity's chat, never to a differing origin chat.        *)
C3_ReportedOnceToDeveloper ==
    /\ reporterRuns = (IF raised # NoError /\ pc # "failed" THEN 1 ELSE 0)
    /\ reporterRuns = 1 => context_error = raised
    /\ \A i \in 1..Len(reports) :
        /\ int(reports[i].chat_id) = AuthorizedIdentity
        /\ ~Authorized => reports[i].chat_id # str_int(update.chat)
    /\ Len(reports) > 0 => reporterRuns = 1

C3_Witness ==
    /\ pc = "done"
    /\ ~Authorized
    /\ raised.kind = "Unauthorized"
    /\ reporterRuns = 1
    /\ Len(reports) = 1
    /\ reports[1].chat_id = <<"4", "2">>

(* C4 as stated: a handler run that ends in a failure has delivered no     *)
(* reply to the origin chat.                                               *)
C4_NoReplyOnFailure == raised # NoError => replies = <<>>

(* C4 amended: an unauthorized request gets no reply, and a run that ends  *)
(* in a failure has delivered no reply, except a video run whose second    *)
(* (confirmation) reply fails, which has delivered exactly the usage reply.*)
C4_NoReplyUnlessVideoConfirmationFails ==
    /\ (Handling /\ ~Authorized) => replies = <<>>
    /\ raised # NoError =>
        replies = (IF raised.at = "video_reply_done" THEN <<UsageReply>> ELSE <<>>)

C4_Witness ==
    /\ pc = "done"
    /\ update.kind = "video"
    /\ raised.kind = "TransportFailure"
    /\ raised.at = "video_reply_done"
    /\ Len(replies) = 1
    /\ files[writeCalls[1]] = update.video

(* C5: for an authorized photo event with a non-empty sequence of variants *)
(* the Downloader is invoked exactly once, with the reference of the last  *)
(* variant and never with that of an earlier one.                          *)
C5_DownloadsLastVariant ==
    (update.kind = "photo" /\ Authorized) =>
        /\ pc # "image" => file_id = update.photo[Len(update.photo)]
        /\ pc \notin {"image", "get_file"} =>
              getFileCalls = <<update.photo[Len(update.photo)]>>
        /\ \A i \in 1..Len(getFileCalls) : \A k \in 1..(Len(update.photo) - 1) :
              getFileCalls[i] # update.photo[k]
        /\ Len(getFileCalls) <= 1

C5_Witness ==
    /\ pc = "done"
    /\ update.kind = "photo"
    /\ raised = NoError
    /\ Len(update.photo) = 3
    /\ getFileCalls = <<update.photo[3]>>
    /\ replies = <<[chat |-> update.chat, text |-> <<"Downloaded image">>]>>

(* C6: a download that succeeds writes the file's content to the base      *)
(* directory /files/ under the final '/'-separated segment of the remote   *)
(* path and nothing else of the path; a file already there is overwritten  *)
(* and every other file is left as it was.                                 *)
C6_WritesFinalSegmentAndOverwrites ==
    [][ (pc = "download_to_drive" /\ pc' # "failed") =>
          \E k \in 0..Len(new_file) :
            LET seg == SubSeq(new_file, k + 1, Len(new_file))
                target == <<"/files/">> \o seg
            IN  /\ \A i \in 1..Len(seg) : seg[i] # "/"
                /\ k = 0 \/ new_file[k] = "/"
                /\ writeCalls' = Append(writeCalls, target)
                /\ DOMAIN files' = DOMAIN files \cup {target}
                /\ files'[target] = file_id
                /\ \A p \in DOMAIN files \ {target} : files'[p] = files[p]
      ]_vars

C6_Witness ==
    /\ pc \in {"image_reply", "video_reply_usage"}
    /\ Contains(new_file, <<"/">>)
    /\ replaced \notin {"none", file_id}
    /\ Cardinality(DOMAIN files) = 1
    /\ files[writeCalls[1]] = file_id

(* C7: when sending the error report fails, the send is not retried and    *)
(* the Error Reporter is not invoked again: one send attempt per report at *)
(* most, and never a second report.                                        *)
C7_ReportSentAtMostOnce ==
    /\ sendAttempts <= 1
    /\ reporterRuns <= 1
    /\ Len(reports) <= sendAttempts
    /\ sendAttempts = (IF reporterRuns = 1 /\ pc = "done" THEN 1 ELSE 0)

C7_Witness ==
    /\ pc = "done"
    /\ raised # NoError
    /\ sendAttempts = 1
    /\ reports = <<>>

(* C8: a transport failure in either step of download reaches the Error    *)
(* Reporter unmodified, each step is attempted at most once, and no reply  *)
(* follows a download failure.                                             *)
C8_DownloadFailurePropagates ==
    /\ Len(getFileCalls) <= 1
    /\ Len(writeCalls) <= 1
    /\ raised.at \in {"get_file", "download_to_drive"} =>
        /\ raised.kind = "TransportFailure"
        /\ replies = <<>>
        /\ pc \in {"failed", "error_handler", "done"}
        /\ pc # "failed" => context_error = raised
        /\ raised.at = "get_file" => writeCalls = <<>>
        /\ \A i \in 1..Len(reports) : Contains(reports[i].text, <<raised.cls, ": ">>)

C8_Witness ==
    /\ pc = "done"
    /\ raised.at = "download_to_drive"
    /\ context_error = raised
    /\ Len(writeCalls) = 1
    /\ Len(reports) = 1

(* the positions of a token in a message, ascending *)
Positions(s, tok) ==
    SelectSeq([i \in 1..Len(s) |-> i], LAMBDA i : s[i] = tok)

(* the message is four <pre>...</pre> blocks, one after the other *)
FourPreBlocks(s) ==
    LET o == Positions(s, "<pre>")
        c == Positions(s, "</pre>")
    IN  /\ Len(o) = 4
        /\ Len(c) = 4
        /\ \A k \in 1..4 : o[k] < c[k]
        /\ \A k \in 1..3 : c[k] < o[k + 1]

(* the content of the k-th <pre> block *)
pre_block(s, k) ==
    SubSeq(s, Positions(s, "<pre>")[k] + 1, Positions(s, "</pre>")[k] - 1)

EntityNames == {"amp", "lt", "gt", "quot", "#x27"}

EntityChar(name) ==
    CASE name = "amp" -> "&"
      [] name = "lt" -> "<"
      [] name = "gt" -> ">"
      [] name = "quot" -> "\""
      [] name = "#x27" -> "'"

(* what an HTML parser reads back from escaped text *)
RECURSIVE html_unescape(_)
html_unescape(s) ==
    IF s = <<>> THEN <<>>
    ELSE IF Head(s) = "&" /\ Len(s) >= 3 /\ s[2] \in EntityNames /\ s[3] = ";"
         THEN <<EntityChar(s[2])>> \o html_unescape(SubSeq(s, 4, Len(s)))
    ELSE <<Head(s)>> \o html_unescape(Tail(s))

(* no raw '<' or '>', and every '&' starts an entity *)
NoRawMarkup(s) ==
    \A i \in 1..Len(s) :
        /\ s[i] \notin {"<", ">"}
        /\ s[i] = "&" => (i + 2 <= Len(s) /\ s[i + 1] \in EntityNames /\ s[i + 2] = ";")

(* C9: the report is HTML-escaped: each of the four components (serialized *)
(* event, chat data, user data, stack trace) sits escaped in its <pre>     *)
(* block, so '<', '>' and '&' of a component occur in the sent message     *)
(* only as entities and an HTML parser reads the component back unchanged. *)
C9_ReportIsHtmlEscaped ==
    \A i \in 1..Len(reports) :
        LET t == reports[i].text
        IN  /\ reports[i].parse_mode = "HTML"
            /\ NoRawMarkup(t)
            /\ FourPreBlocks(t)
            /\ html_unescape(pre_block(t, 1)) = <<"update = ">> \o json_dumps(update)
            /\ html_unescape(pre_block(t, 2))
                 = <<"context.chat_data = ">> \o chat_data_str
            /\ html_unescape(pre_block(t, 3))
                 = <<"context.user_data = ">> \o user_data_str
            /\ html_unescape(pre_block(t, 4)) = tb_string(context_error)

C9_Witness ==
    /\ Len(reports) = 1
    /\ context_error.msg = <<"<", "script", ">">>
    /\ Contains(update.text, <<"<", "b", ">">>)
    /\ Contains(reports[1].text, <<"&", "lt", ";", "script", "&", "gt", ";">>)
    /\ Contains(reports[1].text, <<"&", "lt", ";", "b", "&", "gt", ";">>)

(* C10: an authorized video event is handled in the order guard, download  *)
(* of the video payload, usage reply with the chat id, confirmation reply; *)
(* no step starts before the one before it succeeded, and a successful run *)
(* sends exactly these two replies in that order.                          *)
C10_VideoStepsInOrder ==
    (update.kind = "video" /\ Authorized) =>
        LET both == << [chat |-> update.chat,
                        text |-> <<"Use /bad_command to cause an error.\n",
                                   "Your chat id is ", "<code>", "4", "2",
                                   "</code>", ".">>],
                       [chat |-> update.chat, text |-> <<"Downloaded video">>] >>
        IN  /\ \E n \in 0..2 : replies = SubSeq(both, 1, n)
            /\ (pc = "done" /\ raised = NoError) => replies = both
            /\ replies # <<>> =>
                  /\ Len(writeCalls) = 1
                  /\ writeCalls[1] \in DOMAIN files
                  /\ files[writeCalls[1]] = update.video
                  /\ raised.at \notin {"get_file", "download_to_drive"}
            /\ writeCalls # <<>> => (getFileCalls = <<update.video>> /\ new_file # <<>>)
            /\ getFileCalls # <<>> => pc # "video"

C10_Witness ==
    /\ pc = "done"
    /\ update.kind = "video"
    /\ raised = NoError
    /\ Len(replies) = 2
    /\ replies[2].text = <<"Downloaded video">>
    /\ getFileCalls = <<update.video>>

====
